---- MODULE Spec2Model ----
(***************************************************************************)
(* Medical Insurance Premium Prediction (MIPP).                            *)
(*                                                                         *)
(* Part I   the relational store declared by the schema (tables users and  *)
(*          predictions, UNIQUE columns, AUTOINCREMENT keys, the foreign   *)
(*          key with ON DELETE CASCADE) and the data-layer operations that *)
(*          run single statements against it.                              *)
(* Part II  the client script static/js/script.js: field validation,       *)
(*          the prediction request and its messages, the loading overlay.  *)
(***************************************************************************)
EXTENDS Integers, Sequences, FiniteSets, TLC

VARIABLES
    \* the store
    users,        \* rows of table users
    predictions,  \* rows of table predictions
    userSeq,      \* AUTOINCREMENT counter of users
    predSeq,      \* AUTOINCREMENT counter of predictions
    lastOp,       \* the data-layer operation last run, with its result
    \* the page
    form,         \* the form's fields by name: value, classes, feedback
    realTime,     \* enableRealTimeValidation has wired the form
    lastEvent,    \* the event last handled, with validateField's return value
    hasContainer, \* the page has a .container element
    calls,        \* the calls of submitPredictionAJAX, in order
    requests,     \* POST /user/api/predict requests sent so far
    alerts,       \* the alerts in .container, first child first
    overlays      \* the elements with id loadingOverlay in document.body

storeVars == <<users, predictions, userSeq, predSeq, lastOp>>

fieldVars == <<form, realTime>>

ajaxVars == <<hasContainer, calls, requests, alerts>>

pageVars == <<form, realTime, lastEvent, hasContainer, calls, requests,
              alerts, overlays>>

vars == <<users, predictions, userSeq, predSeq, lastOp,
          form, realTime, lastEvent, hasContainer, calls, requests,
          alerts, overlays>>

(***************************************************************************)
(* Part I: the store                                                       *)
(***************************************************************************)

\* Largest value the users AUTOINCREMENT counter takes in the model.
MaxUserSeq == 3

\* Largest value the predictions AUTOINCREMENT counter takes in the model.
MaxPredSeq == 2

\* Text values offered for the username and email columns.  The schema puts
\* no format on either column, so one text can be a username and an email.
Texts == {"ann", "ann@x.io", "bob@x.io"}

\* predicted_premium values offered to recordPrediction.
Premiums == {100, 200}

UserRow(id, username, email) ==
    [id |-> id, username |-> username, email |-> email]

PredictionRow(id, user_id, premium) ==
    [id |-> id, user_id |-> user_id, predicted_premium |-> premium]

\* INTEGER PRIMARY KEY AUTOINCREMENT: one more than the largest key ever used.
NextKey(seq) == seq + 1

UsernameFreeNoCheck(table, username) == TRUE

\* username ... UNIQUE: no row of the table holds this username.
UsernameFree(table, username) ==
    \A u \in table : u.username # username

EmailFreeWrongColumn(table, email) ==
    \A u \in table : u.username # email

\* email ... UNIQUE: no row of the table holds this email.
EmailFree(table, email) ==
    \A u \in table : u.email # email

ForeignKeyHoldsNoCheck(table, user_id) == TRUE

\* FOREIGN KEY (user_id) REFERENCES users (id): the parent row exists.
ForeignKeyHolds(table, user_id) ==
    \E u \in table : u.id = user_id

OnDeleteCascadeNone(preds, deleted) == preds

\* ON DELETE CASCADE: the child rows of the deleted parent keys go with them.
OnDeleteCascade(preds, deleted) ==
    {p \in preds : p.user_id \notin deleted}

NoOp ==
    [op |-> "init", uid |-> 0, username |-> "", email |-> "", key |-> "",
     result |-> "", rid |-> 0, n |-> 0]

NoEvent == [kind |-> "load", name |-> "", ret |-> "none"]

\* No call made, no alert and no overlay on the page.
AjaxIdle ==
    /\ calls = <<>>
    /\ requests = 0
    /\ alerts = <<>>
    /\ overlays = <<>>

\* The page as loaded, with no field on it.
PageIdle ==
    /\ form = <<>>
    /\ realTime = FALSE
    /\ lastEvent = NoEvent
    /\ hasContainer = TRUE
    /\ AjaxIdle

\* The store as created by the schema: both tables empty.
StoreEmpty ==
    /\ users = {}
    /\ predictions = {}
    /\ userSeq = 0
    /\ predSeq = 0
    /\ lastOp = NoOp

StoreInit ==
    /\ PageIdle
    /\ StoreEmpty

\* The constraint violations an INSERT of (username, email) runs into.
CreateUserErrors(username, email) ==
    (IF UsernameFree(users, username) THEN {} ELSE {"DuplicateUsername"})
    \cup (IF EmailFree(users, email) THEN {} ELSE {"DuplicateEmail"})

\* createUser(username, email, passwordHash) -> UserId | fails(...)
createUser(username, email) ==
    /\ userSeq < MaxUserSeq
    /\ IF CreateUserErrors(username, email) = {}
       THEN /\ users' = users \cup {UserRow(NextKey(userSeq), username, email)}
            /\ userSeq' = NextKey(userSeq)
            /\ lastOp' = [NoOp EXCEPT !.op = "createUser",
                             !.username = username, !.email = email,
                             !.result = "ok", !.rid = NextKey(userSeq)]
       ELSE /\ \E err \in CreateUserErrors(username, email) :
                 lastOp' = [NoOp EXCEPT !.op = "createUser",
                               !.username = username, !.email = email,
                               !.result = err]
            /\ UNCHANGED <<users, userSeq>>
    /\ UNCHANGED <<predictions, predSeq>>
    /\ UNCHANGED pageVars

\* getUserByUsernameOrEmail(key) -> User | NotFound
getUserByUsernameOrEmail(key) ==
    LET found == {u \in users : u.username = key \/ u.email = key}
    IN  /\ IF found = {}
           THEN lastOp' = [NoOp EXCEPT !.op = "getUser", !.key = key,
                              !.result = "NotFound"]
           ELSE \E u \in found :
                  lastOp' = [NoOp EXCEPT !.op = "getUser", !.key = key,
                                !.result = "User", !.rid = u.id,
                                !.username = u.username, !.email = u.email]
        /\ UNCHANGED <<users, predictions, userSeq, predSeq>>
        /\ UNCHANGED pageVars

\* recordPrediction(userId, attributes, predictedPremium) -> PredictionId | fails
recordPrediction(userId, premium) ==
    /\ predSeq < MaxPredSeq
    /\ IF ForeignKeyHolds(users, userId)
       THEN /\ predictions' = predictions
                   \cup {PredictionRow(NextKey(predSeq), userId, premium)}
            /\ predSeq' = NextKey(predSeq)
            /\ lastOp' = [NoOp EXCEPT !.op = "recordPrediction",
                             !.uid = userId, !.result = "ok",
                             !.rid = NextKey(predSeq)]
       ELSE /\ lastOp' = [NoOp EXCEPT !.op = "recordPrediction",
                             !.uid = userId,
                             !.result = "ForeignKeyViolation"]
            /\ UNCHANGED <<predictions, predSeq>>
    /\ UNCHANGED <<users, userSeq>>
    /\ UNCHANGED pageVars

\* deleteUser(userId): DELETE FROM users WHERE id = userId
deleteUser(userId) ==
    LET gone == {u \in users : u.id = userId}
        keys == {u.id : u \in gone}
    IN  /\ users' = users \ gone
        /\ predictions' = OnDeleteCascade(predictions, keys)
        /\ lastOp' = [NoOp EXCEPT !.op = "deleteUser", !.uid = userId,
                         !.result = "ok",
                         !.n = Cardinality(predictions)
                               - Cardinality(OnDeleteCascade(predictions, keys))]
        /\ UNCHANGED <<userSeq, predSeq>>
        /\ UNCHANGED pageVars

StoreNext ==
    \/ \E username \in Texts, email \in Texts : createUser(username, email)
    \/ \E key \in Texts : getUserByUsernameOrEmail(key)
    \/ \E userId \in 1..MaxUserSeq, premium \in Premiums :
          recordPrediction(userId, premium)
    \/ \E userId \in 1..MaxUserSeq : deleteUser(userId)

SpecStore == StoreInit /\ [][StoreNext]_vars

(***************************************************************************)
(* Properties of the store                                                 *)
(***************************************************************************)

\* The step just taken is a deleteUser(d).
IsDeleteStep(d) == lastOp'.op = "deleteUser" /\ lastOp'.uid = d

C1_DeleteStep ==
    \A d \in 1..MaxUserSeq :
        IsDeleteStep(d) =>
            /\ \A p \in predictions' : p.user_id # d
            /\ \A u \in users' : u.id # d
            /\ \A p \in predictions : p.user_id # d => p \in predictions'
            /\ \A u \in users : u.id # d => u \in users'
            /\ predictions' \subseteq predictions
            /\ users' \subseteq users

\* C1: deleteUser(u) removes every prediction row whose user_id is u (and the
\* user row), and every prediction row of every other user and every other
\* user row is still present, the same row, afterwards; no row is added.
C1_DeleteCascades == [][C1_DeleteStep]_vars

\* A deleteUser has just cascaded to at least one prediction row while
\* rows of other users remain.
C1_Witness ==
    /\ lastOp.op = "deleteUser"
    /\ lastOp.n > 0
    /\ predictions # {}
    /\ users # {}

C2_Inv ==
    \A u \in users, v \in users :
        (u.username = v.username \/ u.email = v.email) => u = v

C2_CreateStep ==
    lastOp'.op = "createUser" =>
        LET usedName == \E u \in users : u.username = lastOp'.username
            usedMail == \E u \in users : u.email = lastOp'.email
        IN  /\ (usedName /\ ~usedMail) => lastOp'.result = "DuplicateUsername"
            /\ (usedMail /\ ~usedName) => lastOp'.result = "DuplicateEmail"
            /\ (usedName \/ usedMail) =>
                   lastOp'.result \in {"DuplicateUsername", "DuplicateEmail"}
            /\ lastOp'.result # "ok" =>
                   users' = users /\ predictions' = predictions

C3_Inv ==
    \A p \in predictions : \E u \in users : u.id = p.user_id

C3_RecordStep ==
    lastOp'.op = "recordPrediction" =>
        IF \E u \in users : u.id = lastOp'.uid
        THEN lastOp'.result = "ok"
        ELSE /\ lastOp'.result = "ForeignKeyViolation"
             /\ predictions' = predictions

\* C3: every prediction row's user_id is the id of an existing user row, and
\* recordPrediction with a userId that is not, or is no longer, the id of a
\* user row fails with ForeignKeyViolation and inserts nothing.
C3_ReferentialIntegrity == []C3_Inv /\ [][C3_RecordStep]_vars

\* recordPrediction has just been refused for the id of a deleted user while
\* other predictions are stored.
C3_Witness ==
    /\ lastOp.op = "recordPrediction"
    /\ lastOp.result = "ForeignKeyViolation"
    /\ lastOp.uid <= userSeq
    /\ predictions # {}

\* A createUser with a username no row has as username and an email no row
\* has as email succeeds and returns an id.
C4_CreateStep ==
    (/\ lastOp'.op = "createUser"
     /\ \A u \in users : u.username # lastOp'.username
     /\ \A u \in users : u.email # lastOp'.email)
    => (/\ lastOp'.result = "ok"
        /\ lastOp'.rid > 0
        /\ UserRow(lastOp'.rid, lastOp'.username, lastOp'.email) \in users')

\* The step just taken looks up the username or the email of the user that
\* the step before it created.
IsLookupAfterCreate ==
    /\ lastOp.op = "createUser"
    /\ lastOp.result = "ok"
    /\ lastOp'.op = "getUser"
    /\ lastOp'.key \in {lastOp.username, lastOp.email}

SameIdentity == lastOp'.result = "User" /\ lastOp'.rid = lastOp.rid

\* No other row holds the new user's username or email in either column.
NoCrossColumnClash ==
    \A u \in users :
        u.id # lastOp.rid =>
            /\ u.username \notin {lastOp.username, lastOp.email}
            /\ u.email \notin {lastOp.username, lastOp.email}

\* C4 as stated: createUser of a pair whose username and email are not in use
\* succeeds, and a lookup by that username or that email then returns the
\* user with the same id, whatever other users exist.
C4_LookupAfterCreate ==
    /\ [][C4_CreateStep]_vars
    /\ [][IsLookupAfterCreate => SameIdentity]_vars

\* C4 as amended: the lookup returns the same id provided no other user row
\* holds the new username or the new email in either column (a username that
\* is another user's email, or an email that is another user's username).
C4_LookupAfterCreateAmended ==
    /\ [][C4_CreateStep]_vars
    /\ [][(IsLookupAfterCreate /\ NoCrossColumnClash) => SameIdentity]_vars

\* A lookup has just returned the most recently created user while another
\* user exists.
C4_Witness ==
    /\ lastOp.op = "getUser"
    /\ lastOp.result = "User"
    /\ lastOp.rid = userSeq
    /\ lastOp.key \in {lastOp.username, lastOp.email}
    /\ \E u \in users : u.id # lastOp.rid

(***************************************************************************)
(* Part II: the client script.  Texts are sequences of one-character       *)
(* strings; numbers read by parseFloat are kept in tenths.                 *)
(***************************************************************************)

Digits == <<"0", "1", "2", "3", "4", "5", "6", "7", "8", "9">>

IsDigit(c) == \E i \in 1..10 : Digits[i] = c

DigitVal(c) == (CHOOSE i \in 1..10 : Digits[i] = c) - 1

IsSpace(c) == c = " "

RECURSIVE SkipSpaces(_)
SkipSpaces(s) ==
    IF s # <<>> /\ IsSpace(Head(s)) THEN SkipSpaces(Tail(s)) ELSE s

RECURSIVE DropTrailingSpaces(_)
DropTrailingSpaces(s) ==
    IF s # <<>> /\ IsSpace(s[Len(s)])
    THEN DropTrailingSpaces(SubSeq(s, 1, Len(s) - 1))
    ELSE s

\* String.prototype.trim
Trim(s) == DropTrailingSpaces(SkipSpaces(s))

\* The longest prefix of s made of decimal digits.
RECURSIVE DigitPrefix(_)
DigitPrefix(s) ==
    IF s # <<>> /\ IsDigit(Head(s))
    THEN <<Head(s)>> \o DigitPrefix(Tail(s))
    ELSE <<>>

RECURSIVE DigitsValue(_, _)
DigitsValue(s, acc) ==
    IF s = <<>> THEN acc ELSE DigitsValue(Tail(s), 10 * acc + DigitVal(Head(s)))

\* A JavaScript number: NaN, or a value.
NaN == [nan |-> TRUE, val |-> 0]

Num(v) == [nan |-> FALSE, val |-> v]

\* The relational operators: every comparison with NaN is false.
Lt(x, k) == ~x.nan /\ x.val < k

Gt(x, k) == ~x.nan /\ x.val > k

Le(x, k) == ~x.nan /\ x.val <= k

Ge(x, k) == ~x.nan /\ x.val >= k

Unsigned(s) ==
    IF s # <<>> /\ Head(s) \in {"-", "+"} THEN Tail(s) ELSE s

IsNegative(s) == s # <<>> /\ Head(s) = "-"

\* parseInt(text): leading white space, a sign, then the digits up to the
\* first other character; NaN when there is no digit.
parseInt(text) ==
    LET t == SkipSpaces(text)
        d == DigitPrefix(Unsigned(t))
    IN  IF d = <<>>
        THEN NaN
        ELSE Num(IF IsNegative(t) THEN 0 - DigitsValue(d, 0)
                                  ELSE DigitsValue(d, 0))

\* parseFloat(text), in tenths: leading white space, a sign, digits, and a
\* point with digits, of which the first is kept (the texts offered carry at
\* most one); NaN when there is no digit.
parseFloat(text) ==
    LET t    == SkipSpaces(text)
        u    == Unsigned(t)
        ip   == DigitPrefix(u)
        rest == SubSeq(u, Len(ip) + 1, Len(u))
        fp   == IF rest # <<>> /\ Head(rest) = "."
                THEN DigitPrefix(Tail(rest))
                ELSE <<>>
        mag  == 10 * DigitsValue(ip, 0)
                  + (IF fp = <<>> THEN 0 ELSE DigitVal(Head(fp)))
    IN  IF ip = <<>> /\ fp = <<>>
        THEN NaN
        ELSE Num(IF IsNegative(t) THEN 0 - mag ELSE mag)

\* A field as the page loads it: empty, no class, no feedback.
Pristine(required) ==
    [value |-> <<>>, required |-> required, valid |-> FALSE,
     invalid |-> FALSE, feedback |-> ""]

validateAge(input) ==
    LET age == parseInt(input.value)
    IN  IF Lt(age, 18) \/ Gt(age, 100)
        THEN [input EXCEPT !.invalid = TRUE, !.valid = FALSE,
                 !.feedback = "Age must be between 18 and 100 years."]
        ELSE IF Ge(age, 18) /\ Le(age, 100)
        THEN [input EXCEPT !.valid = TRUE, !.invalid = FALSE,
                 !.feedback = ""]
        ELSE input

getBMICategoryInclusive(bmi) ==
    IF Le(bmi, 185) THEN "Underweight"
    ELSE IF Le(bmi, 250) THEN "Normal weight"
    ELSE IF Le(bmi, 300) THEN "Overweight"
    ELSE "Obese"

getBMICategory(bmi) ==
    IF Lt(bmi, 185) THEN "Underweight"
    ELSE IF Lt(bmi, 250) THEN "Normal weight"
    ELSE IF Lt(bmi, 300) THEN "Overweight"
    ELSE "Obese"

\* (input.style.borderColor, which no listener reads, is not kept.)
validateBMI(input) ==
    LET bmi == parseFloat(input.value)
    IN  IF Lt(bmi, 100) \/ Gt(bmi, 500)
        THEN [input EXCEPT !.invalid = TRUE, !.valid = FALSE,
                 !.feedback = "BMI must be between 10 and 50."]
        ELSE IF Ge(bmi, 100) /\ Le(bmi, 500)
        THEN [input EXCEPT !.valid = TRUE, !.invalid = FALSE,
                 !.feedback = getBMICategory(bmi)]
        ELSE input

\* [^\s@]+ : a non-empty text with no white space and no @.
IsPlainRun(s) ==
    /\ s # <<>>
    /\ \A i \in 1..Len(s) : ~IsSpace(s[i]) /\ s[i] # "@"

\* /^[^\s@]+@[^\s@]+\.[^\s@]+$/.test(email)
emailRegexTest(email) ==
    \E i \in 1..Len(email), j \in 1..Len(email) :
        /\ i < j
        /\ email[i] = "@"
        /\ email[j] = "."
        /\ IsPlainRun(SubSeq(email, 1, i - 1))
        /\ IsPlainRun(SubSeq(email, i + 1, j - 1))
        /\ IsPlainRun(SubSeq(email, j + 1, Len(email)))

validateEmail(input) ==
    IF ~emailRegexTest(input.value)
    THEN [input EXCEPT !.invalid = TRUE, !.valid = FALSE,
             !.feedback = "Please enter a valid email address."]
    ELSE [input EXCEPT !.valid = TRUE, !.invalid = FALSE, !.feedback = ""]

\* validateField(field): the field as it leaves it, and what it returns
\* ("true", "false", or "undefined" where it returns the result of a
\* validator that returns nothing).
validateField(field, name) ==
    LET value   == Trim(field.value)
        cleared == [field EXCEPT !.valid = FALSE, !.invalid = FALSE]
    IN  IF cleared.required /\ value = <<>>
        THEN [field |-> [cleared EXCEPT !.invalid = TRUE], ret |-> "false"]
        ELSE CASE name = "age" ->
                    [field |-> validateAge(cleared), ret |-> "undefined"]
               [] name = "bmi" ->
                    [field |-> validateBMI(cleared), ret |-> "undefined"]
               [] name = "email" ->
                    [field |-> validateEmail(cleared), ret |-> "undefined"]
               [] OTHER ->
                    [field |-> IF value # <<>>
                               THEN [cleared EXCEPT !.valid = TRUE]
                               ELSE cleared,
                     ret |-> "true"]

\* The listeners initializeFormValidations puts on the field: validateAge on
\* input[name="age"], validateBMI on input[name="bmi"], validateEmail on
\* input[type="email"] (the field named email).
OnInputListeners(field, name) ==
    CASE name = "age" -> validateAge(field)
      [] name = "bmi" -> validateBMI(field)
      [] name = "email" -> validateEmail(field)
      [] OTHER -> field

\* enableRealTimeValidation(formId): input and blur listeners on every field.
enableRealTimeValidation ==
    /\ ~realTime
    /\ realTime' = TRUE
    /\ lastEvent' = [kind |-> "wire", name |-> "", ret |-> "none"]
    /\ UNCHANGED form
    /\ UNCHANGED <<ajaxVars, overlays>>
    /\ UNCHANGED storeVars

\* An input event on the field `name`, its value now `text`: the listener of
\* initializeFormValidations runs, then that of enableRealTimeValidation.
InputEvent(name, text) ==
    LET typed   == [form[name] EXCEPT !.value = text]
        checked == OnInputListeners(typed, name)
        again   == validateField(checked, name)
    IN  /\ form' = [form EXCEPT ![name] = IF realTime THEN again.field
                                          ELSE checked]
        /\ lastEvent' = [kind |-> "input", name |-> name,
                         ret |-> IF realTime THEN again.ret ELSE "none"]
        /\ UNCHANGED realTime
        /\ UNCHANGED <<ajaxVars, overlays>>
        /\ UNCHANGED storeVars

\* A blur event on the field `name`.
BlurEvent(name) ==
    /\ realTime
    /\ LET again == validateField(form[name], name)
       IN  /\ form' = [form EXCEPT ![name] = again.field]
           /\ lastEvent' = [kind |-> "blur", name |-> name, ret |-> again.ret]
    /\ UNCHANGED realTime
    /\ UNCHANGED <<ajaxVars, overlays>>
    /\ UNCHANGED storeVars

(***************************************************************************)
(* The texts typed into the fields                                         *)
(***************************************************************************)

\* Largest age typed, each age from 0 up to it being typed.
MaxAge == 102

\* Largest BMI typed, in tenths, each tenth from 0 up to it being typed.
MaxBmiTenths == 520

RECURSIVE FmtInt(_)
FmtInt(n) ==
    IF n < 10 THEN <<Digits[n + 1]>>
    ELSE FmtInt(n \div 10) \o <<Digits[(n % 10) + 1]>>

\* 224 as "22.4", 250 as "25".
FmtTenths(n) ==
    IF n % 10 = 0 THEN FmtInt(n \div 10)
    ELSE FmtInt(n \div 10) \o <<".", Digits[(n % 10) + 1]>>

FieldNames == {"age", "bmi", "email", "region"}

AgeTexts ==
    {FmtInt(n) : n \in 0..MaxAge}
    \cup {<<>>, <<" ">>, <<"a", "b", "c">>, <<"4", "5", "a">>,
          <<" ", "4", "5">>, <<"-", "5">>, <<"4", "5", ".", "9">>}

BmiTexts ==
    {FmtTenths(n) : n \in 0..MaxBmiTenths}
    \cup {<<>>, <<" ">>, <<"a">>, <<"-", "1">>, <<" ", "2", "2">>}

EmailTexts ==
    {<<>>, <<" ">>, <<"a", "@", "b">>, <<"a", "@", "b", ".", "c">>,
     <<"a", "@", "b", ".", "c", ".", "d">>, <<"@", "b", ".", "c">>,
     <<"a", "@", "b", ".">>, <<"a", "@", "@", "b", ".", "c">>,
     <<"a", " ", "@", "b", ".", "c">>, <<"a", "@", ".", "c">>}

OtherTexts == {<<>>, <<" ">>, <<"n", "e">>}

FieldTexts(name) ==
    CASE name = "age" -> AgeTexts
      [] name = "bmi" -> BmiTexts
      [] name = "email" -> EmailTexts
      [] OTHER -> OtherTexts

\* A page whose form holds one field, of any name, required or not.
FieldInit ==
    /\ StoreEmpty
    /\ \E name \in FieldNames, required \in BOOLEAN :
          form = [n \in {name} |-> Pristine(required)]
    /\ realTime = FALSE
    /\ lastEvent = NoEvent
    /\ hasContainer = TRUE
    /\ AjaxIdle

FieldNext ==
    \/ enableRealTimeValidation
    \/ \E name \in DOMAIN form : \E text \in FieldTexts(name) :
          InputEvent(name, text)
    \/ \E name \in DOMAIN form : BlurEvent(name)

SpecField == FieldInit /\ [][FieldNext]_vars

(***************************************************************************)
(* Properties of the field validators                                      *)
(***************************************************************************)

\* C6: after every input event on an age field the field carries is-valid,
\* not is-invalid, and empty feedback when its value parses to an integer in
\* [18,100], and is-invalid, not is-valid, with the message 'Age must be
\* between 18 and 100 years.' for every other value, empty and non-numeric
\* text included.
C6_AgeFlagMatchesValue ==
    (lastEvent.kind = "input" /\ lastEvent.name = "age") =>
        LET f   == form["age"]
            age == parseInt(f.value)
        IN  IF ~age.nan /\ age.val >= 18 /\ age.val <= 100
            THEN f.valid /\ ~f.invalid /\ f.feedback = ""
            ELSE /\ f.invalid
                 /\ ~f.valid
                 /\ f.feedback = "Age must be between 18 and 100 years."

\* What the claim expects of a BMI field holding n tenths.
BmiExpected(f, n) ==
    IF n < 100 \/ n > 500
    THEN /\ f.invalid
         /\ ~f.valid
         /\ f.feedback = "BMI must be between 10 and 50."
    ELSE /\ f.valid
         /\ ~f.invalid
         /\ f.feedback = (IF n < 185 THEN "Underweight"
                          ELSE IF n < 250 THEN "Normal weight"
                          ELSE IF n < 300 THEN "Overweight"
                          ELSE "Obese")

\* C7: whenever validateBMI has run on a field holding a BMI value, the value
\* is rejected (is-invalid, 'BMI must be between 10 and 50.') when below 10
\* or above 50 and otherwise accepted (is-valid) with the label of
\* getBMICategory: Underweight below 18.5, Normal weight below 25, Overweight
\* below 30, Obese from 30; 10 and 50 are accepted, 52 is rejected, 22.4 is
\* accepted as Normal weight.
C7_BmiValidation ==
    (lastEvent.kind \in {"input", "blur"} /\ lastEvent.name = "bmi") =>
        LET f == form["bmi"]
        IN  /\ \A n \in 0..MaxBmiTenths :
                  f.value = FmtTenths(n) => BmiExpected(f, n)
            /\ f.value \in {<<"1", "0">>, <<"5", "0">>} => f.valid
            /\ f.value = <<"5", "2">> => f.invalid
            /\ f.value = <<"2", "2", ".", "4">> =>
                  f.valid /\ f.feedback = "Normal weight"

\* An input event has left 22.4 accepted as Normal weight.
C7_Witness ==
    /\ lastEvent.kind = "input"
    /\ lastEvent.name = "bmi"
    /\ form["bmi"].value = <<"2", "2", ".", "4">>
    /\ form["bmi"].valid
    /\ form["bmi"].feedback = "Normal weight"

\* C9: validateField returns a boolean that agrees with the flag it leaves:
\* false exactly when the field ends up is-invalid, true when it passes, for
\* fields named age, bmi and email as for the others.
C9_ReturnAgreesWithFlag ==
    lastEvent.ret # "none" =>
        /\ lastEvent.ret \in {"true", "false"}
        /\ lastEvent.ret = "false" <=> form[lastEvent.name].invalid

(***************************************************************************)
(* The prediction request and its messages                                 *)
(***************************************************************************)

\* Most calls of submitPredictionAJAX made in the model.
MaxCalls == 2

\* What the endpoint may answer: the documented object (success with
\* formatted_prediction, failure with or without error), the JSON text null,
\* or a body that is not JSON.
Responses ==
    { [kind |-> "object", success |-> TRUE,
       formatted_prediction |-> "$1,234.50", error |-> ""],
      [kind |-> "object", success |-> FALSE,
       formatted_prediction |-> "", error |-> "Invalid input data"],
      [kind |-> "object", success |-> FALSE,
       formatted_prediction |-> "", error |-> ""],
      [kind |-> "null", success |-> FALSE,
       formatted_prediction |-> "", error |-> ""],
      [kind |-> "unparseable", success |-> FALSE,
       formatted_prediction |-> "", error |-> ""] }

\* No response: the request is in flight, or it failed.
NoResponse(kind) ==
    [kind |-> kind, success |-> FALSE, formatted_prediction |-> "",
     error |-> ""]

\* showSuccessMessage(message) is showMessage(message, 'success').
SuccessMessage(message) == [type |-> "success", text |-> message]

\* showErrorMessage(message) is showMessage(message, 'danger').
ErrorMessage(message) == [type |-> "danger", text |-> message]

\* showMessage: the alert becomes the first child of .container, if the page
\* has one; without one it is built and dropped.
showMessage(shown, message) ==
    IF hasContainer THEN <<message>> \o shown ELSE shown

RECURSIVE showAll(_, _)
showAll(shown, messages) ==
    IF messages = <<>> THEN shown
    ELSE showAll(showMessage(shown, Head(messages)), Tail(messages))

onDataFallThrough(data) ==
    (IF data.success
     THEN <<SuccessMessage("Predicted Premium: " \o data.formatted_prediction)>>
     ELSE <<>>)
    \o <<ErrorMessage(IF data.error # "" THEN data.error
                      ELSE "Prediction failed")>>

\* .then(data => ...): the messages the handler shows for a parsed object.
onData(data) ==
    IF data.success
    THEN <<SuccessMessage("Predicted Premium: " \o data.formatted_prediction)>>
    ELSE <<ErrorMessage(IF data.error # "" THEN data.error
                        ELSE "Prediction failed")>>

\* .catch(error => ...): the message the handler shows.
onCatch == <<ErrorMessage("Network error occurred")>>

PageEvent(kind) == [kind |-> kind, name |-> "", ret |-> "none"]

\* submitPredictionAJAX(formData): fetch sends the request and the handlers
\* are chained on its promise.
submitPredictionAJAX ==
    /\ Len(calls) < MaxCalls
    /\ calls' = Append(calls, [pc |-> "fetching", sent |-> 1,
                               response |-> NoResponse("pending"),
                               shown |-> <<>>, outcome |-> "pending"])
    /\ requests' = requests + 1
    /\ lastEvent' = PageEvent("submit")
    /\ UNCHANGED <<hasContainer, alerts, overlays>>
    /\ UNCHANGED fieldVars
    /\ UNCHANGED storeVars

\* The call c runs its catch handler, whose return value (none) fulfils the
\* promise submitPredictionAJAX returned.
Caught(c, response) ==
    /\ calls' = [calls EXCEPT ![c] =
                    [@ EXCEPT !.pc = "settled", !.response = response,
                              !.shown = showAll(@, onCatch),
                              !.outcome = "fulfilled with undefined"]]
    /\ alerts' = showAll(alerts, onCatch)

\* fetch rejects (the network failed): the two then handlers are skipped.
fetchRejects(c) ==
    /\ calls[c].pc = "fetching"
    /\ Caught(c, NoResponse("network error"))
    /\ lastEvent' = PageEvent("fetchRejects")
    /\ UNCHANGED <<hasContainer, requests, overlays>>
    /\ UNCHANGED fieldVars
    /\ UNCHANGED storeVars

\* fetch resolves with a response, of any status: response.json() starts.
fetchResolves(c, response) ==
    /\ calls[c].pc = "fetching"
    /\ calls' = [calls EXCEPT ![c] =
                    [@ EXCEPT !.pc = "parsing", !.response = response]]
    /\ lastEvent' = PageEvent("fetchResolves")
    /\ UNCHANGED <<hasContainer, requests, alerts, overlays>>
    /\ UNCHANGED fieldVars
    /\ UNCHANGED storeVars

\* response.json() settles.  It rejects on a body that is not JSON; on null
\* the data handler throws reading data.success; either way the catch handler
\* runs.  On an object the data handler shows its message and returns data.
jsonSettles(c) ==
    /\ calls[c].pc = "parsing"
    /\ IF calls[c].response.kind = "object"
       THEN /\ calls' = [calls EXCEPT ![c] =
                    [@ EXCEPT !.pc = "settled",
                              !.shown = showAll(@, onData(calls[c].response)),
                              !.outcome = "fulfilled with data"]]
            /\ alerts' = showAll(alerts, onData(calls[c].response))
       ELSE Caught(c, calls[c].response)
    /\ lastEvent' = PageEvent("jsonSettles")
    /\ UNCHANGED <<hasContainer, requests, overlays>>
    /\ UNCHANGED fieldVars
    /\ UNCHANGED storeVars

\* The timer showMessage set fires, 5 s on: the i-th alert is closed.
alertTimeout(i) ==
    /\ alerts' = SubSeq(alerts, 1, i - 1) \o SubSeq(alerts, i + 1, Len(alerts))
    /\ lastEvent' = PageEvent("alertTimeout")
    /\ UNCHANGED <<hasContainer, calls, requests, overlays>>
    /\ UNCHANGED fieldVars
    /\ UNCHANGED storeVars

\* A page with or without .container and no form on it.
AjaxInit ==
    /\ StoreEmpty
    /\ form = <<>>
    /\ realTime = FALSE
    /\ lastEvent = NoEvent
    /\ hasContainer \in BOOLEAN
    /\ AjaxIdle

AjaxNext ==
    \/ submitPredictionAJAX
    \/ \E c \in 1..Len(calls) : fetchRejects(c)
    \/ \E c \in 1..Len(calls) : \E response \in Responses :
          fetchResolves(c, response)
    \/ \E c \in 1..Len(calls) : jsonSettles(c)
    \/ \E i \in 1..Len(alerts) : alertTimeout(i)

SpecAjax == AjaxInit /\ [][AjaxNext]_vars

(***************************************************************************)
(* The prediction form: three required fields, and its submission          *)
(***************************************************************************)

PredictionFields == {"age", "bmi", "region"}

SampleTexts(name) ==
    CASE name = "age" -> {<<>>, <<"1", "7">>, <<"4", "5">>}
      [] name = "bmi" -> {<<>>, <<"5", "2">>, <<"2", "2", ".", "4">>}
      [] OTHER -> {<<>>, <<"n", "e">>}

FormInit ==
    /\ StoreEmpty
    /\ form = [n \in PredictionFields |-> Pristine(TRUE)]
    /\ realTime = FALSE
    /\ lastEvent = NoEvent
    /\ hasContainer = TRUE
    /\ AjaxIdle

FormNext ==
    \/ enableRealTimeValidation
    \/ \E name \in DOMAIN form : \E text \in SampleTexts(name) :
          InputEvent(name, text)
    \/ \E name \in DOMAIN form : BlurEvent(name)
    \/ submitPredictionAJAX

SpecForm == FormInit /\ [][FormNext]_vars

(***************************************************************************)
(* The loading overlay                                                     *)
(***************************************************************************)

\* Most overlay elements in the document in the model.
MaxOverlays == 4

OverlayTexts == {"Loading...", "Calculating...", "Saving..."}

\* showLoadingOverlay(text): a new element with id loadingOverlay is
\* appended to document.body.
showLoadingOverlay(text) ==
    /\ Len(overlays) < MaxOverlays
    /\ overlays' = Append(overlays, text)
    /\ lastEvent' = PageEvent("showLoadingOverlay")
    /\ UNCHANGED ajaxVars
    /\ UNCHANGED fieldVars
    /\ UNCHANGED storeVars

\* hideLoadingOverlay(): getElementById finds the first such element in the
\* document, if any, and removes it.
hideLoadingOverlay ==
    /\ overlays' = IF overlays # <<>> THEN Tail(overlays) ELSE overlays
    /\ lastEvent' = PageEvent("hideLoadingOverlay")
    /\ UNCHANGED ajaxVars
    /\ UNCHANGED fieldVars
    /\ UNCHANGED storeVars

OverlayNext ==
    \/ \E text \in OverlayTexts : showLoadingOverlay(text)
    \/ hideLoadingOverlay

SpecOverlay == StoreInit /\ [][OverlayNext]_vars

(***************************************************************************)
(* Properties of the page                                                  *)
(***************************************************************************)

\* A required field is empty, or age is a number outside [18,100], or BMI is
\* a number outside [10,50].
AnyRequiredFieldInvalid ==
    \E name \in DOMAIN form :
        \/ form[name].required /\ Trim(form[name].value) = <<>>
        \/ /\ name = "age"
           /\ LET age == parseInt(form[name].value)
              IN  ~age.nan /\ (age.val < 18 \/ age.val > 100)
        \/ /\ name = "bmi"
           /\ LET bmi == parseFloat(form[name].value)
              IN  ~bmi.nan /\ (bmi.val < 100 \/ bmi.val > 500)

\* C5: while any required field of the form is invalid (empty, age outside
\* [18,100], BMI outside [10,50]) no step sends a prediction request.
C5_NoRequestWhileInvalid ==
    [][AnyRequiredFieldInvalid => requests' = requests]_vars

\* What C8 expects of the one message a settled call has shown.
MessageMatches(call) ==
    LET r == call.response
        m == call.shown[1]
    IN  /\ r.kind \in {"network error", "unparseable"} =>
              /\ m = ErrorMessage("Network error occurred")
              /\ call.outcome = "fulfilled with undefined"
        /\ (r.kind = "object" /\ r.success) =>
              m = SuccessMessage("Predicted Premium: "
                                    \o r.formatted_prediction)
        /\ (r.kind = "object" /\ ~r.success) =>
              m = ErrorMessage(IF r.error # "" THEN r.error
                               ELSE "Prediction failed")
        /\ m.type = "success" => (r.kind = "object" /\ r.success)

\* C8: on a page with .container every call of submitPredictionAJAX sends
\* exactly one request, shows nothing before it settles and has shown exactly
\* one message when it has: the success message only for success = true, the
\* response's error (or 'Prediction failed') for success = false, 'Network
\* error occurred' when the request failed or the body was not JSON; and its
\* promise is never rejected.
C8_OneRequestOneMessage ==
    hasContainer =>
        /\ requests = Len(calls)
        /\ \A c \in 1..Len(calls) :
              /\ calls[c].sent = 1
              /\ calls[c].outcome # "rejected"
              /\ IF calls[c].pc = "settled"
                 THEN /\ Len(calls[c].shown) = 1
                      /\ calls[c].outcome # "pending"
                      /\ MessageMatches(calls[c])
                 ELSE calls[c].shown = <<>>
        /\ Len(alerts) <= Len(calls)

\* One call has ended in 'Network error occurred' after its request failed
\* and another in the success message, both alerts on the page.
C8_Witness ==
    /\ hasContainer
    /\ \E c \in 1..Len(calls), d \in 1..Len(calls) :
          /\ calls[c].pc = "settled"
          /\ calls[c].response.kind = "network error"
          /\ calls[c].shown = <<ErrorMessage("Network error occurred")>>
          /\ calls[c].outcome = "fulfilled with undefined"
          /\ calls[d].pc = "settled"
          /\ calls[d].response.kind = "object"
          /\ calls[d].response.success
          /\ calls[d].shown[1].type = "success"
    /\ Len(alerts) = 2

\* C10: the document holds at most one element with id loadingOverlay, and
\* none right after a hideLoadingOverlay call.
C10_AtMostOneOverlay ==
    /\ Len(overlays) <= 1
    /\ lastEvent.kind = "hideLoadingOverlay" => overlays = <<>>

====
